---- MODULE Spec2Model ----
(***************************************************************************)
(* Model of the trace exporters of cozeloop-go:                            *)
(*   internal/trace/multi_exporter.go  (MultiExporter)                     *)
(* and of the span pipeline that drives an exporter (span processor with   *)
(* a primary and a retry span queue, a file queue and a file retry queue), *)
(* and of internal/trace/file_exporter.go  (FileExporter), called by the   *)
(* two span-queue consumers concurrently.                                  *)
(***************************************************************************)
EXTENDS Integers, Sequences, FiniteSets, TLC

(* ------------------------------ bounds -------------------------------- *)
MaxArgs == 2        \* longest argument list given to NewMultiExporter
MaxExporters == 2   \* longest exporter list AddExporter is allowed to build
MaxBatch == 2       \* longest batch handed to ExportSpans / ExportFiles
NumSpans == 2       \* spans finished by the program in the pipeline model
QueueCap == 2       \* capacity (max items) of the primary span queue SQ
SideCap == 1        \* capacity (max items) of each of SRQ, FQ and FRQ
BatchCount == 2     \* max number of spans in one flushed span batch
MaxFileCalls == 2   \* number of FileExporter calls made in one behaviour

(* --------------------------- value domains ---------------------------- *)
\* the Exporter implementations a MultiExporter can be given
Exporters == {"server", "file"}
\* a nil Exporter interface value
NilExp == "nil"
\* the nil error
NoErr == "nil"
\* the non-nil errors a child exporter can return
Errs == {"errA", "errB"}
Results == {NoErr} \cup Errs
\* the entries (*entity.UploadSpan, *entity.UploadFile) of a caller's batch
Items == {"x", "y"}

RECURSIVE SeqsUpTo(_, _)
SeqsUpTo(S, n) ==
    IF n = 0 THEN {<<>>}
    ELSE LET shorter == SeqsUpTo(S, n - 1)
         IN  shorter \cup {Append(q, x) : q \in {r \in shorter : Len(r) = n - 1}, x \in S}

\* the batches ([]*entity.UploadSpan, []*entity.UploadFile) callers pass
Batches == SeqsUpTo(Items, MaxBatch)
\* the variadic argument lists of NewMultiExporter
ArgLists == SeqsUpTo(Exporters \cup {NilExp}, MaxArgs)

VARIABLES
    exporters,  \* MultiExporter.exporters
    calls,      \* the child invocations made by the last Export call, in order
    ret,        \* the value the last MultiExporter method returned
    last,       \* the last MultiExporter operation: name, argument, list before it
    sq,         \* pipeline: primary span queue (SQ)
    srq,        \* pipeline: span retry queue (SRQ)
    fq,         \* pipeline: primary file queue (FQ)
    frq,        \* pipeline: file retry queue (FRQ)
    finished,   \* pipeline: spans the program has finished
    submits,    \* pipeline: per exporter child, the span batches it received
    retryEnq,   \* pipeline: per span, number of Enqueue calls on SRQ
    plast,      \* pipeline: the last batch export (source queue, batch, error)
    sq0,        \* reference pipeline without file export: primary span queue
    srq0,       \* reference pipeline without file export: span retry queue
    recv0,      \* reference pipeline: the span batches its server exporter received
    filePath,   \* FileExporter.filePath
    mu,         \* FileExporter.mu: the goroutine holding it, or "none"
    gor,        \* per calling goroutine: its FileExporter call in progress
    flast,      \* the FileExporter call that returned last
    fs,         \* the file system at filePath: directory, file, file content
    fsInit,     \* the file system before the first call
    fhist,      \* the FileExporter calls so far: their number, the text the
                \* successful ones were given to write, whether one failed
    mcall,      \* per calling goroutine: its MultiExporter method in progress
    render      \* a span and the last two markdown texts spanToMarkdown
                \* returned for it

apiVars == <<exporters, calls, ret, last>>
pipeVars == <<sq, srq, fq, frq, finished, submits, retryEnq, plast, sq0, srq0, recv0>>
fileVars == <<filePath, mu, gor, flast, fs, fsInit, fhist>>
extraVars == <<mcall, render>>
vars == <<exporters, calls, ret, last, sq, srq, fq, frq, finished, submits,
          retryEnq, plast, sq0, srq0, recv0,
          filePath, mu, gor, flast, fs, fsInit, fhist, mcall, render>>

(* --------------------------- MultiExporter ---------------------------- *)

\* NewMultiExporter: the loop that keeps the non-nil arguments, in order
RECURSIVE FilterNil(_)
FilterNil(args) ==
    IF args = <<>> THEN <<>>
    ELSE IF Head(args) # NilExp
         THEN <<Head(args)>> \o FilterNil(Tail(args))
         ELSE FilterNil(Tail(args))

\* faulty NewMultiExporter: prepends, so the kept arguments end up reversed
RECURSIVE FilterNilReversed(_)
FilterNilReversed(args) ==
    IF args = <<>> THEN <<>>
    ELSE IF Head(args) # NilExp
         THEN FilterNilReversed(Tail(args)) \o <<Head(args)>>
         ELSE FilterNilReversed(Tail(args))

NewMultiExporterList_Reversed(args) == FilterNilReversed(args)

NewMultiExporterList(args) == FilterNil(args)

\* the loop of MultiExporter.ExportSpans from child i on: res[i] is what child
\* i returns; the result is the calls made and the final value of firstErr
RECURSIVE ExportSpansLoop(_, _, _, _, _, _)
ExportSpansLoop(exps, spans, res, i, firstErr, done) ==
    IF i > Len(exps) THEN [calls |-> done, err |-> firstErr]
    ELSE LET call == [exporter |-> exps[i], op |-> "ExportSpans",
                      batch |-> spans, err |-> res[i]]
         IN  ExportSpansLoop(exps, spans, res, i + 1,
                 IF res[i] # NoErr /\ firstErr = NoErr THEN res[i] ELSE firstErr,
                 Append(done, call))

\* faulty ExportSpans: returns at the first child error
RECURSIVE ExportSpansLoop_Stop(_, _, _, _, _)
ExportSpansLoop_Stop(exps, spans, res, i, done) ==
    IF i > Len(exps) THEN [calls |-> done, err |-> NoErr]
    ELSE LET call == [exporter |-> exps[i], op |-> "ExportSpans",
                      batch |-> spans, err |-> res[i]]
         IN  IF res[i] # NoErr THEN [calls |-> Append(done, call), err |-> res[i]]
             ELSE ExportSpansLoop_Stop(exps, spans, res, i + 1, Append(done, call))

MultiExportSpans_StopAtError(exps, spans, res) ==
    IF Len(exps) = 0 THEN [calls |-> <<>>, err |-> NoErr]
    ELSE ExportSpansLoop_Stop(exps, spans, res, 1, <<>>)

\* faulty ExportSpans: every child error overwrites the one kept
RECURSIVE ExportSpansLoop_Last(_, _, _, _, _, _)
ExportSpansLoop_Last(exps, spans, res, i, lastErr, done) ==
    IF i > Len(exps) THEN [calls |-> done, err |-> lastErr]
    ELSE LET call == [exporter |-> exps[i], op |-> "ExportSpans",
                      batch |-> spans, err |-> res[i]]
         IN  ExportSpansLoop_Last(exps, spans, res, i + 1,
                 IF res[i] # NoErr THEN res[i] ELSE lastErr,
                 Append(done, call))

MultiExportSpans_LastError(exps, spans, res) ==
    IF Len(exps) = 0 THEN [calls |-> <<>>, err |-> NoErr]
    ELSE ExportSpansLoop_Last(exps, spans, res, 1, NoErr, <<>>)

\* faulty ExportSpans: the result of the last child is returned
MultiExportSpans_LastChild(exps, spans, res) ==
    IF Len(exps) = 0 THEN [calls |-> <<>>, err |-> NoErr]
    ELSE [calls |-> ExportSpansLoop(exps, spans, res, 1, NoErr, <<>>).calls,
          err |-> res[Len(exps)]]

\* faulty ExportSpans: an empty exporter list is reported as an error
MultiExportSpans_EmptyIsError(exps, spans, res) ==
    IF Len(exps) = 0 THEN [calls |-> <<>>, err |-> "errA"]
    ELSE ExportSpansLoop(exps, spans, res, 1, NoErr, <<>>)

\* faulty ExportSpans: child i is handed spans[i-1:] instead of spans
RECURSIVE ExportSpansLoop_Slice(_, _, _, _, _, _)
ExportSpansLoop_Slice(exps, spans, res, i, firstErr, done) ==
    IF i > Len(exps) THEN [calls |-> done, err |-> firstErr]
    ELSE LET call == [exporter |-> exps[i], op |-> "ExportSpans",
                      batch |-> SubSeq(spans, i, Len(spans)), err |-> res[i]]
         IN  ExportSpansLoop_Slice(exps, spans, res, i + 1,
                 IF res[i] # NoErr /\ firstErr = NoErr THEN res[i] ELSE firstErr,
                 Append(done, call))

MultiExportSpans_Slice(exps, spans, res) ==
    IF Len(exps) = 0 THEN [calls |-> <<>>, err |-> NoErr]
    ELSE ExportSpansLoop_Slice(exps, spans, res, 1, NoErr, <<>>)

\* faulty ExportSpans: a failed child is tried a second time at once
RECURSIVE ExportSpansLoop_Twice(_, _, _, _, _, _)
ExportSpansLoop_Twice(exps, spans, res, i, firstErr, done) ==
    IF i > Len(exps) THEN [calls |-> done, err |-> firstErr]
    ELSE LET call == [exporter |-> exps[i], op |-> "ExportSpans",
                      batch |-> spans, err |-> res[i]]
         IN  ExportSpansLoop_Twice(exps, spans, res, i + 1,
                 IF res[i] # NoErr /\ firstErr = NoErr THEN res[i] ELSE firstErr,
                 IF res[i] # NoErr THEN done \o <<call, call>> ELSE Append(done, call))

MultiExportSpans_RetryChild(exps, spans, res) ==
    IF Len(exps) = 0 THEN [calls |-> <<>>, err |-> NoErr]
    ELSE ExportSpansLoop_Twice(exps, spans, res, 1, NoErr, <<>>)

MultiExportSpans(exps, spans, res) ==
    IF Len(exps) = 0 THEN [calls |-> <<>>, err |-> NoErr]
    ELSE ExportSpansLoop(exps, spans, res, 1, NoErr, <<>>)

\* the loop of MultiExporter.ExportFiles
RECURSIVE ExportFilesLoop(_, _, _, _, _, _)
ExportFilesLoop(exps, files, res, i, firstErr, done) ==
    IF i > Len(exps) THEN [calls |-> done, err |-> firstErr]
    ELSE LET call == [exporter |-> exps[i], op |-> "ExportFiles",
                      batch |-> files, err |-> res[i]]
         IN  ExportFilesLoop(exps, files, res, i + 1,
                 IF res[i] # NoErr /\ firstErr = NoErr THEN res[i] ELSE firstErr,
                 Append(done, call))

\* faulty ExportFiles: returns at the first child error
RECURSIVE ExportFilesLoop_Stop(_, _, _, _, _)
ExportFilesLoop_Stop(exps, files, res, i, done) ==
    IF i > Len(exps) THEN [calls |-> done, err |-> NoErr]
    ELSE LET call == [exporter |-> exps[i], op |-> "ExportFiles",
                      batch |-> files, err |-> res[i]]
         IN  IF res[i] # NoErr THEN [calls |-> Append(done, call), err |-> res[i]]
             ELSE ExportFilesLoop_Stop(exps, files, res, i + 1, Append(done, call))

MultiExportFiles_StopAtError(exps, files, res) ==
    IF Len(exps) = 0 THEN [calls |-> <<>>, err |-> NoErr]
    ELSE ExportFilesLoop_Stop(exps, files, res, 1, <<>>)

\* faulty ExportFiles: child errors are only logged, nil is returned
MultiExportFiles_Swallow(exps, files, res) ==
    IF Len(exps) = 0 THEN [calls |-> <<>>, err |-> NoErr]
    ELSE [calls |-> ExportFilesLoop(exps, files, res, 1, NoErr, <<>>).calls,
          err |-> NoErr]

MultiExportFiles(exps, files, res) ==
    IF Len(exps) = 0 THEN [calls |-> <<>>, err |-> NoErr]
    ELSE ExportFilesLoop(exps, files, res, 1, NoErr, <<>>)

\* AddExporter: append unless nil
\* faulty AddExporter: the new exporter is put in front
AddExporterList_Prepend(exps, e) == IF e # NilExp THEN <<e>> \o exps ELSE exps

\* faulty AddExporter: no nil check
AddExporterList_KeepNil(exps, e) == Append(exps, e)

AddExporterList(exps, e) == IF e # NilExp THEN Append(exps, e) ELSE exps

\* ExporterCount
ExporterCountOf(exps) == Len(exps)

\* what the children of one call return: one result per list position
Outcomes(exps) == [1..Len(exps) -> Results]
\* the same for the pipeline, where only success or failure matters
PipeOutcomes(exps) == [1..Len(exps) -> {NoErr, "errA"}]

NewMultiExporter ==
    \E args \in ArgLists :
        /\ exporters' = NewMultiExporterList(args)
        /\ calls' = <<>>
        /\ ret' = NoErr
        /\ last' = [op |-> "NewMultiExporter", arg |-> args, before |-> exporters]
        /\ UNCHANGED <<pipeVars, fileVars, extraVars>>

AddExporter ==
    \E e \in Exporters \cup {NilExp} :
        /\ Len(exporters) < MaxExporters
        /\ exporters' = AddExporterList(exporters, e)
        /\ calls' = <<>>
        /\ ret' = NoErr
        /\ last' = [op |-> "AddExporter", arg |-> e, before |-> exporters]
        /\ UNCHANGED <<pipeVars, fileVars, extraVars>>

\* faulty ExportSpans: a child that returned an error is taken off the list
ExportSpans_DropFailed ==
    \E spans \in Batches, res \in Outcomes(exporters) :
        LET r == MultiExportSpans(exporters, spans, res)
            ok == {i \in 1..Len(exporters) :
                      \A j \in 1..Len(r.calls) :
                          r.calls[j].exporter = exporters[i] => r.calls[j].err = NoErr}
            keep(x) == x \in {exporters[i] : i \in ok}
        IN  /\ calls' = r.calls
            /\ ret' = r.err
            /\ last' = [op |-> "ExportSpans", arg |-> spans, before |-> exporters]
            /\ exporters' = SelectSeq(exporters, keep)
            /\ UNCHANGED <<pipeVars, fileVars, extraVars>>

ExportSpans ==
    \E spans \in Batches, res \in Outcomes(exporters) :
        LET r == MultiExportSpans(exporters, spans, res)
        IN  /\ calls' = r.calls
            /\ ret' = r.err
            /\ last' = [op |-> "ExportSpans", arg |-> spans, before |-> exporters]
            /\ UNCHANGED exporters
            /\ UNCHANGED <<pipeVars, fileVars, extraVars>>

ExportFiles ==
    \E files \in Batches, res \in Outcomes(exporters) :
        LET r == MultiExportFiles(exporters, files, res)
        IN  /\ calls' = r.calls
            /\ ret' = r.err
            /\ last' = [op |-> "ExportFiles", arg |-> files, before |-> exporters]
            /\ UNCHANGED exporters
            /\ UNCHANGED <<pipeVars, fileVars, extraVars>>

ExporterCount ==
    /\ ret' = ExporterCountOf(exporters)
    /\ calls' = <<>>
    /\ last' = [op |-> "ExporterCount", arg |-> <<>>, before |-> exporters]
    /\ UNCHANGED exporters
    /\ UNCHANGED <<pipeVars, fileVars, extraVars>>

(* --------------------------- span pipeline ---------------------------- *)
\* The span processor: on_span_end feeds SQ; one consumer per queue flushes
\* batches to the exporter.  The pipeline's exporter is the MultiExporter
\* held in `exporters`; the reference pipeline (sq0, srq0, recv0) is the same
\* program configured without local file export: its exporter is the server
\* exporter alone.  Both are driven by the same finished spans, the same batch
\* cuts and the same server responses.

SpanIds == 1..NumSpans

\* the spans that carry an attachment (a large text or a multi-modality part)
WithFile == {s \in SpanIds : s % 2 = 1}

\* bounded queue, non-blocking Enqueue: the item is dropped when the queue is full
Enqueue(q, x, cap) == IF Len(q) < cap THEN Append(q, x) ELSE q

RECURSIVE EnqueueAll(_, _, _)
EnqueueAll(q, xs, cap) ==
    IF xs = <<>> THEN q ELSE EnqueueAll(Enqueue(q, Head(xs), cap), Tail(xs), cap)

Min(a, b) == IF a < b THEN a ELSE b
Take(q, n) == SubSeq(q, 1, Min(n, Len(q)))
Drop(q, n) == SubSeq(q, Min(n, Len(q)) + 1, Len(q))

\* transferToUploadSpanAndFile: the UploadFiles extracted from a span batch;
\* a span with an attachment yields one file, named after the span
RECURSIVE FilesOf(_)
FilesOf(batch) ==
    IF batch = <<>> THEN <<>>
    ELSE (IF Head(batch) \in WithFile THEN <<Head(batch)>> ELSE <<>>)
         \o FilesOf(Tail(batch))

\* the body of the function newExportSpansFunc returns, for one batch:
\* retryQ is the retry queue handed to it (SRQ for the SQ consumer, none
\* for the SRQ consumer), given here as fromPrimary
ExportSpansFunc(exps, batch, res, fromPrimary, retryQ, fileQ) ==
    LET r == MultiExportSpans(exps, batch, res)
    IN  [calls |-> r.calls,
         err |-> r.err,
         retryQ |-> IF r.err # NoErr /\ fromPrimary THEN EnqueueAll(retryQ, batch, SideCap)
                    ELSE retryQ,
         retried |-> IF r.err # NoErr /\ fromPrimary THEN batch ELSE <<>>,
         fileQ |-> IF r.err = NoErr THEN EnqueueAll(fileQ, FilesOf(batch), SideCap)
                   ELSE fileQ,
         files |-> IF r.err = NoErr THEN FilesOf(batch) ELSE <<>>]

\* the body of the function newExportFilesFunc returns, for one batch
ExportFilesFunc(exps, batch, res, fromPrimary, retryQ) ==
    LET r == MultiExportFiles(exps, batch, res)
    IN  [calls |-> r.calls,
         err |-> r.err,
         retryQ |-> IF r.err # NoErr /\ fromPrimary THEN EnqueueAll(retryQ, batch, SideCap)
                    ELSE retryQ]

\* the span batches each child received, extended by the calls of one export
Record(sub, cs) ==
    [e \in Exporters |->
        sub[e] \o [k \in 1..Len(SelectSeq(cs, LAMBDA c : c.exporter = e)) |->
                      SelectSeq(cs, LAMBDA c : c.exporter = e)[k].batch]]

RECURSIVE CountIn(_, _)
CountIn(q, x) ==
    IF q = <<>> THEN 0
    ELSE (IF Head(q) = x THEN 1 ELSE 0) + CountIn(Tail(q), x)

\* the result the server exporter gives in a pipeline export whose children
\* returned res: the reference pipeline's server answers the same
ServerResult(exps, res) ==
    IF \E i \in 1..Len(exps) : exps[i] = "server"
    THEN res[CHOOSE i \in 1..Len(exps) : exps[i] = "server"]
    ELSE NoErr

\* on_span_end: Finish hands the span to SQ
OnSpanEnd ==
    \E s \in SpanIds \ finished :
        /\ finished' = finished \cup {s}
        /\ sq' = Enqueue(sq, s, QueueCap)
        /\ sq0' = Enqueue(sq0, s, QueueCap)
        /\ UNCHANGED <<srq, fq, frq, submits, retryEnq, plast, srq0, recv0>>
        /\ UNCHANGED <<apiVars, fileVars, extraVars>>

\* the SQ consumer flushes a batch of the first n spans of SQ
FlushSpanQueue ==
    \E n \in 1..BatchCount, res \in PipeOutcomes(exporters) :
        /\ sq # <<>>
        /\ LET batch == Take(sq, n)
               r == ExportSpansFunc(exporters, batch, res, TRUE, srq, fq)
               batch0 == Take(sq0, n)
               err0 == ServerResult(exporters, res)
           IN  /\ sq' = Drop(sq, n)
               /\ srq' = r.retryQ
               /\ fq' = r.fileQ
               /\ submits' = Record(submits, r.calls)
               /\ retryEnq' = [s \in SpanIds |-> retryEnq[s] + CountIn(r.retried, s)]
               /\ plast' = [src |-> "SQ", batch |-> batch, calls |-> r.calls,
                            err |-> r.err, files |-> r.files, retried |-> r.retried]
               /\ sq0' = Drop(sq0, n)
               /\ recv0' = IF batch0 # <<>> THEN Append(recv0, batch0) ELSE recv0
               /\ srq0' = IF batch0 # <<>> /\ err0 # NoErr
                          THEN EnqueueAll(srq0, batch0, SideCap) ELSE srq0
        /\ UNCHANGED <<frq, finished>>
        /\ UNCHANGED <<apiVars, fileVars, extraVars>>

\* the SRQ consumer flushes a batch of the first n spans of SRQ
FlushSpanRetryQueue ==
    \E n \in 1..BatchCount, res \in PipeOutcomes(exporters) :
        /\ srq # <<>> \/ srq0 # <<>>
        /\ LET batch == Take(srq, n)
               r == ExportSpansFunc(exporters, batch, res, FALSE, <<>>, fq)
               batch0 == Take(srq0, n)
           IN  /\ srq' = Drop(srq, n)
               /\ srq0' = Drop(srq0, n)
               /\ recv0' = IF batch0 # <<>> THEN Append(recv0, batch0) ELSE recv0
               /\ IF batch # <<>>
                  THEN /\ fq' = r.fileQ
                       /\ submits' = Record(submits, r.calls)
                       /\ plast' = [src |-> "SRQ", batch |-> batch, calls |-> r.calls,
                                    err |-> r.err, files |-> r.files,
                                    retried |-> r.retried]
                       /\ retryEnq' = [s \in SpanIds |->
                                          retryEnq[s] + CountIn(r.retried, s)]
                  ELSE UNCHANGED <<fq, submits, plast, retryEnq>>
        /\ UNCHANGED <<sq, sq0, frq, finished>>
        /\ UNCHANGED <<apiVars, fileVars, extraVars>>

\* the FQ consumer flushes one file (batch count 1)
FlushFileQueue ==
    \E res \in PipeOutcomes(exporters) :
        /\ fq # <<>>
        /\ LET r == ExportFilesFunc(exporters, Take(fq, 1), res, TRUE, frq)
           IN  /\ fq' = Drop(fq, 1)
               /\ frq' = r.retryQ
               /\ plast' = [src |-> "FQ", batch |-> Take(fq, 1), calls |-> r.calls,
                            err |-> r.err, files |-> <<>>, retried |-> <<>>]
        /\ UNCHANGED <<sq, srq, finished, submits, retryEnq, sq0, srq0, recv0>>
        /\ UNCHANGED <<apiVars, fileVars, extraVars>>

\* the FRQ consumer flushes one file; a failure drops it
FlushFileRetryQueue ==
    \E res \in PipeOutcomes(exporters) :
        /\ frq # <<>>
        /\ LET r == ExportFilesFunc(exporters, Take(frq, 1), res, FALSE, <<>>)
           IN  /\ frq' = Drop(frq, 1)
               /\ plast' = [src |-> "FRQ", batch |-> Take(frq, 1), calls |-> r.calls,
                            err |-> r.err, files |-> <<>>, retried |-> <<>>]
        /\ UNCHANGED <<sq, srq, fq, finished, submits, retryEnq, sq0, srq0, recv0>>
        /\ UNCHANGED <<apiVars, fileVars, extraVars>>

(* ---------------------------- FileExporter ---------------------------- *)
\* One FileExporter, called by the SQ consumer and the SRQ consumer (through
\* the MultiExporter).  ExportSpans is modelled step by step: the calls of the
\* two goroutines interleave at the lock, at MkdirAll, at OpenFile and at each
\* WriteString.  The operating system may fail any of the three.

Goroutines == {"primary", "retry"}

DefaultLocalExportPath == "./cozeloop_traces.md"
CustomPath == "traces/nested/my_traces.md"

\* NewFileExporter: an empty path means the default path
NewFileExporterPath(p) == IF p = "" THEN DefaultLocalExportPath ELSE p

\* filepath.Dir on the paths used here
Dir(p) == IF p = CustomPath THEN "traces/nested" ELSE "."

\* a nil *entity.UploadSpan, and the spans of a batch
NilSpan == "nilspan"
FileSpans == {"a", "b"}
\* the batches given to FileExporter.ExportSpans: empty, only nil, one span,
\* two spans, nil entries before and between spans
FileBatches ==
    {<<>>, <<NilSpan>>, <<"a">>, <<"a", "b">>, <<NilSpan, "a">>,
     <<"a", NilSpan, "b">>}
\* the batches given to FileExporter.ExportFiles
UploadBatches == {<<>>, <<"x">>}

\* the errors of os.MkdirAll, os.OpenFile and f.WriteString; ENOENT is the
\* error of OpenFile when the parent directory does not exist
ErrMkdir == "errMkdir"
ErrOpen == "errOpen"
ErrNoDir == "ENOENT"
ErrWrite == "errWrite"

\* the text written for a span: its markdown, tagged by the span
SpanMarkdown(s) == <<"md", s>>

\* one WriteString into the file: the text, the call that wrote it, and
\* whether all of it reached the file
Chunk(s, k, whole) == [md |-> SpanMarkdown(s), call |-> k, whole |-> whole]
OldChunk == [md |-> <<"old">>, call |-> 0, whole |-> TRUE]

\* what call k has to write for a batch: the markdown of its non-nil spans
RECURSIVE Rendered(_, _)
Rendered(spans, k) ==
    IF spans = <<>> THEN <<>>
    ELSE (IF Head(spans) = NilSpan THEN <<>> ELSE <<Chunk(Head(spans), k, TRUE)>>)
         \o Rendered(Tail(spans), k)

IdleGor == [op |-> "none", pc |-> "idle", batch |-> <<>>, idx |-> 0, call |-> 0,
            err |-> NoErr, fault |-> "none", at |-> 0]

\* goroutine g starts call number k of op with the batch, at position pc
StartCall(op, pc, batch, k) ==
    [op |-> op, pc |-> pc, batch |-> batch, idx |-> 1, call |-> k,
     err |-> NoErr, fault |-> "none", at |-> 0]

\* the history after a call of ExportSpans returned err for the batch
Returned(h, batch, k, err) ==
    IF err = NoErr THEN [h EXCEPT !.expect = @ \o Rendered(batch, k)]
    ELSE [h EXCEPT !.failed = TRUE]

\* a return of ExportSpans after the lock was taken: the deferred f.Close and
\* e.mu.Unlock run, the caller gets err; fault names the system call that
\* failed (if any) and at the loop index it failed at
FileReturn(g, err, fault, at) ==
    /\ gor' = [gor EXCEPT ![g] = IdleGor]
    /\ flast' = [gor[g] EXCEPT !.pc = "idle", !.err = err, !.fault = fault, !.at = at]
    /\ mu' = "none"
    /\ fhist' = Returned(fhist, gor[g].batch, gor[g].call, err)

\* faulty return: the lock is not released
FileReturn_KeepLock(g, err, fault, at) ==
    /\ gor' = [gor EXCEPT ![g] = IdleGor]
    /\ flast' = [gor[g] EXCEPT !.pc = "idle", !.err = err, !.fault = fault, !.at = at]
    /\ mu' = mu
    /\ fhist' = Returned(fhist, gor[g].batch, gor[g].call, err)

\* faulty ExportSpans entry: no early return for an empty batch
FileExportSpansCall_NoEmptyCheck(g) ==
    /\ gor[g].pc = "idle"
    /\ fhist.n < MaxFileCalls
    /\ \E spans \in FileBatches :
          gor' = [gor EXCEPT ![g] = StartCall("ExportSpans", "lock", spans, fhist.n + 1)]
    /\ fhist' = [fhist EXCEPT !.n = @ + 1]
    /\ UNCHANGED <<filePath, mu, flast, fs, fsInit>>
    /\ UNCHANGED <<apiVars, pipeVars, extraVars>>

\* ExportSpans, entry: len(spans) == 0 returns nil at once
FileExportSpansCall(g) ==
    /\ gor[g].pc = "idle"
    /\ fhist.n < MaxFileCalls
    /\ \E spans \in FileBatches :
          IF Len(spans) = 0
          THEN /\ flast' = StartCall("ExportSpans", "idle", spans, fhist.n + 1)
               /\ UNCHANGED gor
          ELSE /\ gor' = [gor EXCEPT ![g] =
                             StartCall("ExportSpans", "lock", spans, fhist.n + 1)]
               /\ UNCHANGED flast
    /\ fhist' = [fhist EXCEPT !.n = @ + 1]
    /\ UNCHANGED <<filePath, mu, fs, fsInit>>
    /\ UNCHANGED <<apiVars, pipeVars, extraVars>>

\* faulty lock: does not wait for the holder
FileLock_NoWait(g) ==
    /\ gor[g].pc = "lock"
    /\ mu' = g
    /\ gor' = [gor EXCEPT ![g].pc = "mkdir"]
    /\ UNCHANGED <<filePath, flast, fs, fsInit, fhist>>
    /\ UNCHANGED <<apiVars, pipeVars, extraVars>>

\* e.mu.Lock()
FileLock(g) ==
    /\ gor[g].pc = "lock"
    /\ mu = "none"
    /\ mu' = g
    /\ gor' = [gor EXCEPT ![g].pc = "mkdir"]
    /\ UNCHANGED <<filePath, flast, fs, fsInit, fhist>>
    /\ UNCHANGED <<apiVars, pipeVars, extraVars>>

\* faulty directory step: MkdirAll is not called
FileMkdir_Skip(g) ==
    /\ gor[g].pc = "mkdir"
    /\ gor' = [gor EXCEPT ![g].pc = "open"]
    /\ UNCHANGED <<filePath, mu, flast, fs, fsInit, fhist>>
    /\ UNCHANGED <<apiVars, pipeVars, extraVars>>

\* faulty directory step: a MkdirAll error is logged and nil is returned
FileMkdir_SwallowError(g) ==
    /\ gor[g].pc = "mkdir"
    /\ IF Dir(filePath) # "" /\ Dir(filePath) # "."
       THEN \/ /\ fs' = [fs EXCEPT !.dir = TRUE]
               /\ gor' = [gor EXCEPT ![g].pc = "open"]
               /\ UNCHANGED <<mu, flast, fhist>>
            \/ /\ FileReturn(g, NoErr, "mkdir", 0)
               /\ UNCHANGED fs
       ELSE /\ gor' = [gor EXCEPT ![g].pc = "open"]
            /\ UNCHANGED <<mu, flast, fs, fhist>>
    /\ UNCHANGED <<filePath, fsInit>>
    /\ UNCHANGED <<apiVars, pipeVars, extraVars>>

\* the directory step: os.MkdirAll(dir) unless dir is "" or "."
FileMkdir(g) ==
    /\ gor[g].pc = "mkdir"
    /\ IF Dir(filePath) # "" /\ Dir(filePath) # "."
       THEN \/ /\ fs' = [fs EXCEPT !.dir = TRUE]
               /\ gor' = [gor EXCEPT ![g].pc = "open"]
               /\ UNCHANGED <<mu, flast, fhist>>
            \/ /\ FileReturn(g, ErrMkdir, "mkdir", 0)
               /\ UNCHANGED fs
       ELSE /\ gor' = [gor EXCEPT ![g].pc = "open"]
            /\ UNCHANGED <<mu, flast, fs, fhist>>
    /\ UNCHANGED <<filePath, fsInit>>
    /\ UNCHANGED <<apiVars, pipeVars, extraVars>>

\* faulty open: O_TRUNC instead of O_APPEND
FileOpen_Truncate(g) ==
    /\ gor[g].pc = "open"
    /\ IF ~fs.dir
       THEN /\ FileReturn(g, ErrNoDir, "open", 0)
            /\ UNCHANGED fs
       ELSE \/ /\ fs' = [fs EXCEPT !.file = TRUE, !.content = <<>>]
               /\ gor' = [gor EXCEPT ![g].pc = "write"]
               /\ UNCHANGED <<mu, flast, fhist>>
            \/ /\ FileReturn(g, ErrOpen, "open", 0)
               /\ UNCHANGED fs
    /\ UNCHANGED <<filePath, fsInit>>
    /\ UNCHANGED <<apiVars, pipeVars, extraVars>>

\* os.OpenFile(filePath, O_APPEND|O_CREATE|O_WRONLY): creates the file when
\* it is missing, keeps its content when it exists
FileOpen(g) ==
    /\ gor[g].pc = "open"
    /\ IF ~fs.dir
       THEN /\ FileReturn(g, ErrNoDir, "open", 0)
            /\ UNCHANGED fs
       ELSE \/ /\ fs' = [fs EXCEPT !.file = TRUE]
               /\ gor' = [gor EXCEPT ![g].pc = "write"]
               /\ UNCHANGED <<mu, flast, fhist>>
            \/ /\ FileReturn(g, ErrOpen, "open", 0)
               /\ UNCHANGED fs
    /\ UNCHANGED <<filePath, fsInit>>
    /\ UNCHANGED <<apiVars, pipeVars, extraVars>>

\* faulty write loop: a write error is logged and the loop goes on
FileWrite_ContinueOnError(g) ==
    /\ gor[g].pc = "write"
    /\ LET i == gor[g].idx
           spans == gor[g].batch
       IN  IF i > Len(spans)
           THEN /\ FileReturn(g, NoErr, gor[g].fault, gor[g].at)
                /\ UNCHANGED fs
           ELSE IF spans[i] = NilSpan
           THEN /\ gor' = [gor EXCEPT ![g].idx = i + 1]
                /\ UNCHANGED <<mu, flast, fs, fhist>>
           ELSE \/ /\ fs' = [fs EXCEPT !.content =
                                Append(@, Chunk(spans[i], gor[g].call, TRUE))]
                   /\ gor' = [gor EXCEPT ![g].idx = i + 1]
                   /\ UNCHANGED <<mu, flast, fhist>>
                \/ /\ gor' = [gor EXCEPT ![g].idx = i + 1, ![g].fault = "write",
                                         ![g].at = i]
                   /\ UNCHANGED <<mu, flast, fs, fhist>>
    /\ UNCHANGED <<filePath, fsInit>>
    /\ UNCHANGED <<apiVars, pipeVars, extraVars>>

\* faulty write loop: the error return leaves the lock held
FileWrite_NoUnlockOnError(g) ==
    /\ gor[g].pc = "write"
    /\ LET i == gor[g].idx
           spans == gor[g].batch
       IN  IF i > Len(spans)
           THEN /\ FileReturn(g, NoErr, "none", 0)
                /\ UNCHANGED fs
           ELSE IF spans[i] = NilSpan
           THEN /\ gor' = [gor EXCEPT ![g].idx = i + 1]
                /\ UNCHANGED <<mu, flast, fs, fhist>>
           ELSE \/ /\ fs' = [fs EXCEPT !.content =
                                Append(@, Chunk(spans[i], gor[g].call, TRUE))]
                   /\ gor' = [gor EXCEPT ![g].idx = i + 1]
                   /\ UNCHANGED <<mu, flast, fhist>>
                \/ /\ FileReturn_KeepLock(g, ErrWrite, "write", i)
                   /\ UNCHANGED fs
    /\ UNCHANGED <<filePath, fsInit>>
    /\ UNCHANGED <<apiVars, pipeVars, extraVars>>

\* one turn of the write loop, or the return after it: a nil span is skipped,
\* a span is written whole, or WriteString fails (having written nothing or
\* a part of the text) and ExportSpans returns the error
FileWrite(g) ==
    /\ gor[g].pc = "write"
    /\ LET i == gor[g].idx
           spans == gor[g].batch
       IN  IF i > Len(spans)
           THEN /\ FileReturn(g, NoErr, "none", 0)
                /\ UNCHANGED fs
           ELSE IF spans[i] = NilSpan
           THEN /\ gor' = [gor EXCEPT ![g].idx = i + 1]
                /\ UNCHANGED <<mu, flast, fs, fhist>>
           ELSE \/ /\ fs' = [fs EXCEPT !.content =
                                Append(@, Chunk(spans[i], gor[g].call, TRUE))]
                   /\ gor' = [gor EXCEPT ![g].idx = i + 1]
                   /\ UNCHANGED <<mu, flast, fhist>>
                \/ /\ \E part \in BOOLEAN :
                         fs' = IF part
                               THEN [fs EXCEPT !.content =
                                        Append(@, Chunk(spans[i], gor[g].call, FALSE))]
                               ELSE fs
                   /\ FileReturn(g, ErrWrite, "write", i)
    /\ UNCHANGED <<filePath, fsInit>>
    /\ UNCHANGED <<apiVars, pipeVars, extraVars>>

\* faulty ExportFiles: refuses a non-empty batch
FileExportFilesResult_Unsupported(files) ==
    IF Len(files) = 0 THEN NoErr ELSE "errA"

\* the value FileExporter.ExportFiles returns
FileExportFilesResult(files) == NoErr

\* FileExporter.ExportFiles: a no-op
FileExportFiles(g) ==
    /\ gor[g].pc = "idle"
    /\ fhist.n < MaxFileCalls
    /\ \E files \in UploadBatches :
          flast' = [StartCall("ExportFiles", "idle", files, fhist.n + 1)
                       EXCEPT !.err = FileExportFilesResult(files)]
    /\ fhist' = [fhist EXCEPT !.n = @ + 1]
    /\ UNCHANGED <<filePath, mu, gor, fs, fsInit>>
    /\ UNCHANGED <<apiVars, pipeVars, extraVars>>

\* the exporter no call has been made on yet, with the default path and an
\* empty working directory
FileIdle ==
    /\ filePath = NewFileExporterPath("")
    /\ mu = "none"
    /\ gor = [g \in Goroutines |-> IdleGor]
    /\ flast = IdleGor
    /\ fs = [dir |-> TRUE, file |-> FALSE, content |-> <<>>]
    /\ fsInit = fs
    /\ fhist = [n |-> 0, expect |-> <<>>, failed |-> FALSE]

(* ------------------- MultiExporter, concurrent use --------------------- *)
\* MultiExporter has no lock: each method is the sequence of its reads and
\* writes of m.exporters, and the steps of different goroutines interleave.

Callers == {"t1", "t2"}

\* what a read past the end of the old backing array yields
Garbage == "invalid"

IdleCall == [op |-> "none", pc |-> "idle", arg |-> NilExp, view |-> <<>>, idx |-> 0]

\* the values a read of m.exporters by c can yield: the stored slice; when
\* another goroutine is storing a new slice at the same time (a data race),
\* also that slice, or its length with the old array
ReadExporters(c) ==
    {exporters}
    \cup {mcall[w].view : w \in {x \in Callers \ {c} : mcall[x].pc = "store"}}
    \cup {Append(exporters, Garbage) :
             w \in {x \in Callers \ {c} : mcall[x].pc = "store"}}

\* AddExporter, entry: a nil exporter returns at once
ConcAddExporterCall(c) ==
    /\ mcall[c].pc = "idle"
    /\ Len(exporters) < MaxExporters
    /\ \E e \in {"file", NilExp} :
          mcall' = [mcall EXCEPT ![c] =
                       [IdleCall EXCEPT !.op = "AddExporter", !.arg = e,
                                        !.pc = IF e # NilExp THEN "append" ELSE "idle"]]
    /\ UNCHANGED <<apiVars, pipeVars, fileVars, render>>

\* AddExporter: append(m.exporters, exporter) reads the slice
ConcAppend(c) ==
    /\ mcall[c].pc = "append"
    /\ \E read \in ReadExporters(c) :
          mcall' = [mcall EXCEPT ![c].view = AddExporterList(read, mcall[c].arg),
                                 ![c].pc = "store"]
    /\ UNCHANGED <<apiVars, pipeVars, fileVars, render>>

\* AddExporter: m.exporters = ... writes the slice
ConcStore(c) ==
    /\ mcall[c].pc = "store"
    /\ exporters' = mcall[c].view
    /\ mcall' = [mcall EXCEPT ![c] = [IdleCall EXCEPT !.op = "AddExporter"]]
    /\ UNCHANGED <<calls, ret, last, pipeVars, fileVars, render>>

\* ExportSpans or ExportFiles, entry
ConcExportCall(c) ==
    /\ mcall[c].pc = "idle"
    /\ \E op \in {"ExportSpans", "ExportFiles"} :
          mcall' = [mcall EXCEPT ![c] = [IdleCall EXCEPT !.op = op, !.pc = "len"]]
    /\ UNCHANGED <<apiVars, pipeVars, fileVars, render>>

\* ExportSpans / ExportFiles: len(m.exporters) == 0 returns nil
ConcLen(c) ==
    /\ mcall[c].pc = "len"
    /\ \E read \in ReadExporters(c) :
          mcall' = [mcall EXCEPT ![c].pc = IF Len(read) = 0 THEN "idle" ELSE "range"]
    /\ UNCHANGED <<apiVars, pipeVars, fileVars, render>>

\* ExportSpans / ExportFiles: range m.exporters reads the slice once
ConcRange(c) ==
    /\ mcall[c].pc = "range"
    /\ \E read \in ReadExporters(c) :
          mcall' = [mcall EXCEPT ![c] =
                       IF Len(read) = 0 THEN [IdleCall EXCEPT !.op = mcall[c].op]
                       ELSE [@ EXCEPT !.view = read, !.idx = 1, !.pc = "iter"]]
    /\ UNCHANGED <<apiVars, pipeVars, fileVars, render>>

\* ExportSpans / ExportFiles: one turn of the loop invokes the child at idx
ConcIter(c) ==
    /\ mcall[c].pc = "iter"
    /\ mcall' = [mcall EXCEPT ![c] =
                    IF mcall[c].idx >= Len(mcall[c].view)
                    THEN [IdleCall EXCEPT !.op = mcall[c].op]
                    ELSE [@ EXCEPT !.idx = @ + 1]]
    /\ UNCHANGED <<apiVars, pipeVars, fileVars, render>>

\* ExporterCount, entry
ConcCountCall(c) ==
    /\ mcall[c].pc = "idle"
    /\ mcall' = [mcall EXCEPT ![c] = [IdleCall EXCEPT !.op = "ExporterCount",
                                                      !.pc = "count"]]
    /\ UNCHANGED <<apiVars, pipeVars, fileVars, render>>

\* ExporterCount: return len(m.exporters)
ConcCount(c) ==
    /\ mcall[c].pc = "count"
    /\ \E read \in ReadExporters(c) :
          /\ ret' = ExporterCountOf(read)
          /\ mcall' = [mcall EXCEPT ![c].pc = "idle"]
    /\ UNCHANGED <<exporters, calls, last, pipeVars, fileVars, render>>

(* --------------------------- spanToMarkdown ---------------------------- *)
\* The markdown text is the sequence of the pieces written to the builder.

\* texts, with the length the code compares: the empty string, a short text,
\* a text longer than every truncation limit
EmptyText == [t |-> "", len |-> 0]
ShortText == [t |-> "short", len |-> 5]
LongText == [t |-> "long", len |-> 3000]

\* tag keys, listed in ascending string order
KeyOrder == <<"a", "b", "c">>
TagKeys == {KeyOrder[i] : i \in 1..Len(KeyOrder)}
KeyRank(k) == CHOOSE i \in 1..Len(KeyOrder) : KeyOrder[i] = k

TagMaps == {"TagsString", "TagsLong", "TagsDouble", "TagsBool",
            "SystemTagsString", "SystemTagsLong", "SystemTagsDouble"}

\* the key sets a tag map of a span is given
KeySets(m) ==
    CASE m = "TagsString" -> {{}, {"a", "b", "c"}}
      [] m \in {"SystemTagsString", "TagsLong"} -> {{}, {"a", "b"}}
      [] OTHER -> {{}, {"a"}}

\* the value of a tag: string values are texts, the value of key "a" long
TagValue(m, k) ==
    IF m \in {"TagsString", "SystemTagsString"}
    THEN (IF k = "a" THEN LongText ELSE ShortText)
    ELSE <<"value", k>>

\* the spans rendered
MdSpans ==
    {[StatusCode |-> st, ServiceName |-> sv, WorkspaceID |-> ws, LogID |-> lg,
      Input |-> inp, Output |-> out, tags |-> [m \in TagMaps |-> ks[m]]] :
        st \in {0, 1}, sv \in {EmptyText, ShortText}, ws \in {EmptyText, ShortText},
        lg \in {EmptyText, ShortText}, inp \in {EmptyText, ShortText},
        out \in {EmptyText, LongText},
        ks \in {f \in [TagMaps -> SUBSET TagKeys] : \A m \in TagMaps : f[m] \in KeySets(m)}}

\* the orders in which a range over a map with these keys can yield them
Perms(keys) ==
    {f \in [1..Cardinality(keys) -> keys] :
        \A i, j \in 1..Cardinality(keys) : f[i] = f[j] => i = j}

\* truncateString
TruncateString(s, maxLen) ==
    IF s.len <= maxLen THEN s
    ELSE [t |-> <<s.t, maxLen, "... (truncated)">>, len |-> maxLen + 15]

\* escapeMarkdown
EscapeMarkdown(s) == <<"escaped", s>>

Line(name, val) == [kind |-> "line", name |-> name, val |-> val]
Section(name, text) == [kind |-> "section", name |-> name, val |-> text]
TableHead(table) == [kind |-> "table", name |-> table]
Row(table, type, k, v) ==
    [kind |-> "row", name |-> table, type |-> type, key |-> EscapeMarkdown(k), val |-> v]

\* sort.Strings: insertion of each key into the sorted keys before it
RECURSIVE InsertKey(_, _)
InsertKey(sorted, k) ==
    IF sorted = <<>> THEN <<k>>
    ELSE IF KeyRank(k) <= KeyRank(Head(sorted)) THEN <<k>> \o sorted
    ELSE <<Head(sorted)>> \o InsertKey(Tail(sorted), k)

RECURSIVE SortStrings(_)
SortStrings(keys) ==
    IF keys = <<>> THEN <<>>
    ELSE InsertKey(SortStrings(SubSeq(keys, 1, Len(keys) - 1)), keys[Len(keys)])

\* the rows of one map, its keys taken in the order given
TagRows(table, type, m, order) ==
    [i \in 1..Len(order) |-> Row(table, type, order[i], TagValue(m, order[i]))]

\* faulty writeTagsToTable: the keys are not sorted
WriteTagsToTable_Unsorted(table, m, order) ==
    [i \in 1..Len(order) |->
        Row(table, "string", order[i],
            EscapeMarkdown(TruncateString(TagValue(m, order[i]), 100)))]

\* writeTagsToTable: the keys, collected in iteration order, are sorted
WriteTagsToTable(table, m, order) ==
    LET keys == SortStrings(order)
    IN  [i \in 1..Len(keys) |->
            Row(table, "string", keys[i],
                EscapeMarkdown(TruncateString(TagValue(m, keys[i]), 100)))]

HasTags(span) ==
    \/ Cardinality(span.tags["TagsString"]) > 0
    \/ Cardinality(span.tags["TagsLong"]) > 0
    \/ Cardinality(span.tags["TagsDouble"]) > 0
    \/ Cardinality(span.tags["TagsBool"]) > 0

\* faulty hasSystemTags: the double tags are not looked at
HasSystemTags_NoDouble(span) ==
    \/ Cardinality(span.tags["SystemTagsString"]) > 0
    \/ Cardinality(span.tags["SystemTagsLong"]) > 0

HasSystemTags(span) ==
    \/ Cardinality(span.tags["SystemTagsString"]) > 0
    \/ Cardinality(span.tags["SystemTagsLong"]) > 0
    \/ Cardinality(span.tags["SystemTagsDouble"]) > 0

StatusText(span) == IF span.StatusCode # 0 THEN "ERROR" ELSE "OK"

\* spanToMarkdown, with the order each range over a tag map yields its keys in
SpanToMarkdown(span, it) ==
    <<Line("Trace", "TraceID"), Line("Span", "SpanName"), Line("Type", "SpanType"),
      Line("Span ID", "SpanID"), Line("Parent ID", "ParentID"),
      Line("Start Time", "StartedATMicros"), Line("Duration", "DurationMicros"),
      Line("Status", <<StatusText(span), span.StatusCode>>)>>
    \o (IF span.ServiceName # EmptyText
        THEN <<Line("Service", span.ServiceName)>> ELSE <<>>)
    \o (IF span.WorkspaceID # EmptyText
        THEN <<Line("Workspace ID", span.WorkspaceID)>> ELSE <<>>)
    \o (IF span.LogID # EmptyText THEN <<Line("Log ID", span.LogID)>> ELSE <<>>)
    \o (IF span.Input # EmptyText
        THEN <<Section("Input", TruncateString(span.Input, 2000))>> ELSE <<>>)
    \o (IF span.Output # EmptyText
        THEN <<Section("Output", TruncateString(span.Output, 2000))>> ELSE <<>>)
    \o (IF HasTags(span)
        THEN <<TableHead("Tags")>>
             \o WriteTagsToTable("Tags", "TagsString", it["TagsString"])
             \o TagRows("Tags", "long", "TagsLong", it["TagsLong"])
             \o TagRows("Tags", "double", "TagsDouble", it["TagsDouble"])
             \o TagRows("Tags", "bool", "TagsBool", it["TagsBool"])
        ELSE <<>>)
    \o (IF HasSystemTags(span)
        THEN <<TableHead("System Tags")>>
             \o WriteTagsToTable("System Tags", "SystemTagsString", it["SystemTagsString"])
             \o TagRows("System Tags", "long", "SystemTagsLong", it["SystemTagsLong"])
             \o TagRows("System Tags", "double", "SystemTagsDouble", it["SystemTagsDouble"])
        ELSE <<>>)
    \o <<[kind |-> "separator"]>>

\* one call of spanToMarkdown on the span
SpanToMarkdownCall ==
    /\ \E ts \in Perms(render.span.tags["TagsString"]),
          tl \in Perms(render.span.tags["TagsLong"]),
          td \in Perms(render.span.tags["TagsDouble"]),
          tb \in Perms(render.span.tags["TagsBool"]),
          ss \in Perms(render.span.tags["SystemTagsString"]),
          sl \in Perms(render.span.tags["SystemTagsLong"]),
          sd \in Perms(render.span.tags["SystemTagsDouble"]) :
          LET it == [m \in TagMaps |->
                        CASE m = "TagsString" -> ts
                          [] m = "TagsLong" -> tl
                          [] m = "TagsDouble" -> td
                          [] m = "TagsBool" -> tb
                          [] m = "SystemTagsString" -> ss
                          [] m = "SystemTagsLong" -> sl
                          [] OTHER -> sd]
          IN  render' = [render EXCEPT !.prev = render.cur,
                                       !.cur = SpanToMarkdown(render.span, it)]
    /\ UNCHANGED <<apiVars, pipeVars, fileVars, mcall>>

\* no MultiExporter method in progress, no span rendered
ExtraIdle ==
    /\ mcall = [c \in Callers |-> IdleCall]
    /\ render = [span |-> "none", prev |-> <<>>, cur |-> <<>>]

(* --------------------------- specifications --------------------------- *)

PipeIdle ==
    /\ sq = <<>> /\ srq = <<>> /\ fq = <<>> /\ frq = <<>>
    /\ finished = {}
    /\ submits = [e \in Exporters |-> <<>>]
    /\ retryEnq = [s \in SpanIds |-> 0]
    /\ plast = [src |-> "none", batch |-> <<>>, calls |-> <<>>, err |-> NoErr,
                files |-> <<>>, retried |-> <<>>]
    /\ sq0 = <<>> /\ srq0 = <<>> /\ recv0 = <<>>

\* a MultiExporter under direct use: any construction, then any calls
Init ==
    /\ \E args \in ArgLists :
          /\ exporters = NewMultiExporterList(args)
          /\ last = [op |-> "NewMultiExporter", arg |-> args, before |-> <<>>]
    /\ calls = <<>>
    /\ ret = NoErr
    /\ PipeIdle
    /\ FileIdle
    /\ ExtraIdle

Next ==
    \/ NewMultiExporter
    \/ AddExporter
    \/ ExportSpans
    \/ ExportFiles
    \/ ExporterCount

Spec == Init /\ [][Next]_vars

\* the client built with local file export enabled: the pipeline's exporter
\* is NewMultiExporter(server exporter, file exporter)
PipeInit ==
    /\ exporters = NewMultiExporterList(<<"server", "file">>)
    /\ last = [op |-> "NewMultiExporter", arg |-> <<"server", "file">>,
               before |-> <<>>]
    /\ calls = <<>>
    /\ ret = NoErr
    /\ PipeIdle
    /\ FileIdle
    /\ ExtraIdle

PipeNext ==
    \/ OnSpanEnd
    \/ FlushSpanQueue
    \/ FlushSpanRetryQueue
    \/ FlushFileQueue
    \/ FlushFileRetryQueue

PipeSpec == PipeInit /\ [][PipeNext]_vars

\* a FileExporter on the default or on a custom path; the directory and the
\* file may or may not exist yet, and an existing file holds old traces
FileInit ==
    /\ exporters = NewMultiExporterList(<<"server", "file">>)
    /\ last = [op |-> "NewMultiExporter", arg |-> <<"server", "file">>,
               before |-> <<>>]
    /\ calls = <<>>
    /\ ret = NoErr
    /\ PipeIdle
    /\ \E p \in {"", CustomPath} : filePath = NewFileExporterPath(p)
    /\ mu = "none"
    /\ gor = [g \in Goroutines |-> IdleGor]
    /\ flast = IdleGor
    /\ \E d \in BOOLEAN, f \in BOOLEAN, old \in {<<>>, <<OldChunk>>} :
          /\ (Dir(filePath) = ".") => d
          /\ f => d
          /\ f <=> old # <<>>
          /\ fs = [dir |-> d, file |-> f, content |-> old]
          /\ fsInit = fs
    /\ fhist = [n |-> 0, expect |-> <<>>, failed |-> FALSE]
    /\ ExtraIdle

FileNext ==
    \E g \in Goroutines :
        \/ FileExportSpansCall(g)
        \/ FileLock(g)
        \/ FileMkdir(g)
        \/ FileOpen(g)
        \/ FileWrite(g)
        \/ FileExportFiles(g)

FileSpec == FileInit /\ [][FileNext]_vars

\* the exporter on a custom path whose directory is still missing, so that
\* every step of ExportSpans, MkdirAll included, is taken
FairFileInit == FileInit /\ filePath = CustomPath /\ ~fs.dir

\* the scheduler runs every goroutine that can take a step; sync.Mutex hands
\* the lock to a waiter that keeps asking for it
FairFileSpec ==
    /\ FairFileInit
    /\ [][FileNext]_vars
    /\ \A g \in Goroutines :
          /\ WF_vars(FileMkdir(g) \/ FileOpen(g) \/ FileWrite(g))
          /\ SF_vars(FileLock(g))

\* a MultiExporter built empty or around the server exporter and shared by
\* goroutines that call its methods
ConcInit ==
    /\ \E args \in {<<>>, <<"server">>} :
          /\ exporters = NewMultiExporterList(args)
          /\ last = [op |-> "NewMultiExporter", arg |-> args, before |-> <<>>]
    /\ calls = <<>>
    /\ ret = NoErr
    /\ PipeIdle
    /\ FileIdle
    /\ ExtraIdle

ConcNext ==
    \E c \in Callers :
        \/ ConcAddExporterCall(c)
        \/ ConcAppend(c)
        \/ ConcStore(c)
        \/ ConcExportCall(c)
        \/ ConcLen(c)
        \/ ConcRange(c)
        \/ ConcIter(c)
        \/ ConcCountCall(c)
        \/ ConcCount(c)

ConcSpec == ConcInit /\ [][ConcNext]_vars

\* a span of MdSpans, rendered again and again
MdInit ==
    /\ exporters = NewMultiExporterList(<<"server", "file">>)
    /\ last = [op |-> "NewMultiExporter", arg |-> <<"server", "file">>,
               before |-> <<>>]
    /\ calls = <<>>
    /\ ret = NoErr
    /\ PipeIdle
    /\ FileIdle
    /\ mcall = [c \in Callers |-> IdleCall]
    /\ \E span \in MdSpans : render = [span |-> span, prev |-> <<>>, cur |-> <<>>]

MdNext == SpanToMarkdownCall

MdSpec == MdInit /\ [][MdNext]_vars

(* ------------------------------ claims -------------------------------- *)

IsExport == last.op \in {"ExportSpans", "ExportFiles"}

\* the error of the earliest failing call of cs, NoErr when none failed
EarliestError(cs) ==
    IF \E i \in 1..Len(cs) : cs[i].err # NoErr
    THEN cs[CHOOSE i \in 1..Len(cs) :
                /\ cs[i].err # NoErr
                /\ \A j \in 1..(i - 1) : cs[j].err = NoErr].err
    ELSE NoErr

\* C1: when ExportSpans has returned, it has invoked ExportSpans on every
\* wrapped exporter exactly once, in registration order: the calls made are
\* one per list entry, entry by entry, whatever the earlier children returned.
C1_SpansInvokesEveryChildInOrder ==
    last.op = "ExportSpans" =>
        /\ Len(calls) = Len(exporters)
        /\ \A i \in 1..Len(calls) :
              calls[i].exporter = exporters[i] /\ calls[i].op = "ExportSpans"

\* C1 witness: the first child failed and the second was still invoked
C1_Witness ==
    /\ last.op = "ExportSpans"
    /\ Len(exporters) = 2
    /\ Len(calls) = 2
    /\ calls[1].err # NoErr
    /\ calls[2].exporter = exporters[2]

\* C2: ExportSpans returns nil iff every child returned nil, and otherwise
\* exactly the error of the earliest-registered failing child.
C2_SpansReturnsFirstError ==
    last.op = "ExportSpans" =>
        /\ (ret = NoErr) <=> (\A i \in 1..Len(calls) : calls[i].err = NoErr)
        /\ ret = EarliestError(calls)

\* C2 witness: two children failed with different errors, the first one's is returned
C2_Witness ==
    /\ last.op = "ExportSpans"
    /\ Len(calls) = 2
    /\ calls[1].err = "errB"
    /\ calls[2].err = "errA"
    /\ ret = "errB"

\* C3: when ExportFiles has returned, it has invoked ExportFiles on every
\* wrapped exporter exactly once, in registration order, also after an
\* earlier child returned an error.
C3_FilesInvokesEveryChildInOrder ==
    last.op = "ExportFiles" =>
        /\ Len(calls) = Len(exporters)
        /\ \A i \in 1..Len(calls) :
              calls[i].exporter = exporters[i] /\ calls[i].op = "ExportFiles"

\* C3 witness: the first child failed ExportFiles and the second was still invoked
C3_Witness ==
    /\ last.op = "ExportFiles"
    /\ Len(exporters) = 2
    /\ Len(calls) = 2
    /\ calls[1].err # NoErr
    /\ calls[2].exporter = exporters[2]
    /\ calls[2].op = "ExportFiles"

\* C4: ExportFiles returns nil iff every child's ExportFiles returned nil, and
\* otherwise exactly the error of the earliest-registered failing child.
C4_FilesReturnsFirstError ==
    last.op = "ExportFiles" =>
        /\ (ret = NoErr) <=> (\A i \in 1..Len(calls) : calls[i].err = NoErr)
        /\ ret = EarliestError(calls)

\* C4 witness: the first child succeeded, the second failed, its error is returned
C4_Witness ==
    /\ last.op = "ExportFiles"
    /\ Len(calls) = 2
    /\ calls[1].err = NoErr
    /\ calls[2].err = "errA"
    /\ ret = "errA"

\* C5: a MultiExporter built from no arguments or only nil arguments holds
\* zero exporters, and with zero exporters ExportSpans and ExportFiles return
\* nil for any batch and invoke no exporter.
C5_EmptyMultiExporterIsNoOp ==
    /\ (last.op = "NewMultiExporter"
          /\ \A i \in 1..Len(last.arg) : last.arg[i] = NilExp)
       => exporters = <<>>
    /\ (IsExport /\ exporters = <<>>) => (ret = NoErr /\ calls = <<>>)

\* C5 witness: a non-empty batch was exported through an empty MultiExporter
C5_Witness ==
    /\ IsExport
    /\ exporters = <<>>
    /\ Len(last.arg) = MaxBatch
    /\ ret = NoErr

\* C6: NewMultiExporter keeps exactly the non-nil arguments in their original
\* relative order, and ExporterCount is the length of the list, so the number
\* of non-nil arguments.
C6_NewKeepsNonNilInOrder ==
    /\ last.op = "NewMultiExporter" =>
          /\ exporters = SelectSeq(last.arg, LAMBDA e : e # NilExp)
          /\ Len(exporters) =
                Cardinality({i \in 1..Len(last.arg) : last.arg[i] # NilExp})
          /\ ExporterCountOf(exporters) = Len(exporters)
    /\ last.op = "ExporterCount" => ret = Len(exporters)

\* C6 witness: a nil argument was dropped and a non-nil one kept
C6_Witness ==
    /\ last.op = "NewMultiExporter"
    /\ \E i \in 1..Len(last.arg) : last.arg[i] = NilExp
    /\ \E i \in 1..Len(last.arg) : last.arg[i] # NilExp
    /\ Len(exporters) = 1

\* C7: AddExporter(nil) leaves the list unchanged; AddExporter(e), e non-nil,
\* appends e after all existing exporters and raises the count by one; an
\* export invokes the last list entry last.
C7_AddExporterAppends ==
    /\ (last.op = "AddExporter" /\ last.arg = NilExp) => exporters = last.before
    /\ (last.op = "AddExporter" /\ last.arg # NilExp) =>
          /\ exporters = Append(last.before, last.arg)
          /\ ExporterCountOf(exporters) = ExporterCountOf(last.before) + 1
          /\ exporters[Len(exporters)] = last.arg
    /\ (IsExport /\ exporters # <<>>) =>
          calls[Len(calls)].exporter = exporters[Len(exporters)]

\* C7 witness: a non-nil exporter was added to a non-empty MultiExporter
C7_Witness ==
    /\ last.op = "AddExporter"
    /\ last.arg # NilExp
    /\ last.before # <<>>
    /\ last.arg # last.before[1]

\* C8: in one ExportSpans or ExportFiles call every child receives the batch
\* the caller passed, unchanged.
C8_ChildrenReceiveCallersBatch ==
    IsExport => \A i \in 1..Len(calls) : calls[i].batch = last.arg

\* C8 witness: two children received a batch of two different entries
C8_Witness ==
    /\ IsExport
    /\ Len(calls) = 2
    /\ Len(last.arg) = 2
    /\ last.arg[1] # last.arg[2]
    /\ calls[2].batch = last.arg

\* number of batches of bs that hold span s
RECURSIVE Submissions(_, _)
Submissions(bs, s) ==
    IF bs = <<>> THEN 0
    ELSE (IF CountIn(Head(bs), s) > 0 THEN 1 ELSE 0) + Submissions(Tail(bs), s)

\* C9: the span batches the server exporter receives through
\* MultiExporter{server, file} are those it receives without the file exporter.
C9_ServerUnaffectedByFileExport ==
    submits["server"] = recv0

IsPrefix(p, q) == Len(p) <= Len(q) /\ SubSeq(q, 1, Len(p)) = p

AllIdle == \A g \in Goroutines : gor[g].pc = "idle"

\* the writes of call k found in the file, in file order
ChunksOf(k) == SelectSeq(fs.content, LAMBDA c : c.call = k)

\* the call a step starts: it is in progress on a goroutine, or it has
\* returned within the step
StartedCall ==
    IF \E g \in Goroutines : gor'[g].call = fhist'.n
    THEN gor'[CHOOSE g \in Goroutines : gor'[g].call = fhist'.n]
    ELSE flast'

\* C11: ExportSpans only appends.  The content the file had before the first
\* call stays at its start; while no call has failed, the file is that content
\* followed by the markdown of the non-nil spans of the calls that returned, in
\* call order and batch order (expect), and it is exactly that once no call is
\* in progress.
C11_ExportSpansOnlyAppends ==
    /\ IsPrefix(fsInit.content, fs.content)
    /\ ~fhist.failed => IsPrefix(fsInit.content \o fhist.expect, fs.content)
    /\ (~fhist.failed /\ AllIdle) => fs.content = fsInit.content \o fhist.expect

\* C11 witness: two successful calls on a file that held old traces, the
\* second with a nil span in its batch
C11_Witness ==
    /\ AllIdle /\ ~fhist.failed
    /\ fsInit.content # <<>>
    /\ flast.op = "ExportSpans" /\ flast.call = 2
    /\ \E i \in 1..Len(flast.batch) : flast.batch[i] = NilSpan
    /\ ChunksOf(1) # <<>> /\ ChunksOf(2) # <<>>
    /\ Len(fs.content) = Len(fsInit.content) + Len(ChunksOf(1)) + Len(ChunksOf(2))

\* C12: a call of ExportSpans with an empty batch returns nil within its first
\* step: it has returned (it is not in progress on any goroutine), the file
\* system and the lock are as before, and no other call is disturbed.
C12_EmptyBatchNoEffect ==
    [][(/\ fhist'.n = fhist.n + 1
        /\ StartedCall.op = "ExportSpans"
        /\ StartedCall.batch = <<>>)
       => (/\ flast' = StartedCall
           /\ flast'.err = NoErr
           /\ fs' = fs /\ mu' = mu /\ gor' = gor /\ filePath' = filePath)]_vars

\* C12 witness: an empty batch returned nil while another call held the lock
\* and the directory of the path did not exist
C12_Witness ==
    /\ flast.op = "ExportSpans" /\ flast.batch = <<>> /\ flast.err = NoErr
    /\ flast.call = 2
    /\ mu # "none"
    /\ ~fs.dir /\ ~fs.file

\* C13: FileExporter.ExportFiles returns nil and changes neither the file
\* system nor the exporter (path, lock, calls in progress); with that result
\* for the file child, MultiExporter.ExportFiles returns what the server
\* child returns, whichever of the two is registered first.
C13_FileExportFilesNoOp ==
    [][(/\ fhist'.n = fhist.n + 1
        /\ StartedCall.op = "ExportFiles")
       => (/\ flast' = StartedCall
           /\ flast'.err = NoErr
           /\ fs' = fs /\ mu' = mu /\ gor' = gor /\ filePath' = filePath
           /\ \A r \in Results :
                 LET res == [i \in 1..2 |-> IF i = 1 THEN r ELSE flast'.err]
                     rev == [i \in 1..2 |-> IF i = 2 THEN r ELSE flast'.err]
                 IN  /\ MultiExportFiles(<<"server", "file">>, flast'.batch, res).err = r
                     /\ MultiExportFiles(<<"file", "server">>, flast'.batch, rev).err = r)]_vars

\* C13 witness: ExportFiles was called with a file while another goroutine
\* was writing spans
C13_Witness ==
    /\ flast.op = "ExportFiles" /\ flast.batch # <<>> /\ flast.err = NoErr
    /\ \E g \in Goroutines : gor[g].pc = "write" /\ gor[g].idx > 1
    /\ fs.content # <<>>

\* C14: a call of ExportSpans with a non-empty batch never fails for a
\* missing parent directory; when no system call fails it returns nil, and
\* when it returns nil the directory and the file exist and the file holds
\* the markdown of the batch's spans.
C14_CreatesMissingDirectories ==
    (flast.op = "ExportSpans" /\ flast.batch # <<>>) =>
        /\ flast.err # ErrNoDir
        /\ (flast.fault = "none") => (flast.err = NoErr)
        /\ (flast.err = NoErr) =>
              /\ fs.dir /\ fs.file
              /\ ChunksOf(flast.call) = Rendered(flast.batch, flast.call)

\* C14 witness: the first call, on a path whose directory did not exist,
\* returned nil
C14_Witness ==
    /\ filePath = CustomPath
    /\ ~fsInit.dir /\ ~fsInit.file
    /\ flast.op = "ExportSpans" /\ flast.call = 1 /\ flast.err = NoErr
    /\ Len(flast.batch) > 1
    /\ fs.dir /\ fs.file /\ fs.content # <<>>

\* a call between taking the lock and returning
InCritical(g) == gor[g].pc \in {"mkdir", "open", "write"}

\* C15: at most one call is between opening the file and the end of its
\* writes, and it holds the lock; the writes of one call are contiguous in
\* the file.
C15_OneWriterAtATime ==
    /\ \A g, h \in Goroutines : (InCritical(g) /\ InCritical(h)) => g = h
    /\ \A g \in Goroutines : InCritical(g) => mu = g
    /\ \A i, j, k \in 1..Len(fs.content) :
          (i < j /\ j < k /\ fs.content[i].call = fs.content[k].call)
              => fs.content[j].call = fs.content[i].call

\* C15 witness: one call has written the first of its two spans while a
\* second call waits for the lock
C15_Witness ==
    \E g, h \in Goroutines :
        /\ gor[g].pc = "write" /\ gor[g].idx = 2 /\ Len(gor[g].batch) = 2
        /\ Len(ChunksOf(gor[g].call)) = 1
        /\ gor[h].pc = "lock"

\* C16: the lock is held only by a call in progress, every return of a call
\* that took it releases it, and every call in progress eventually returns.
C16_LockReleasedAndAcquired ==
    /\ [](\A g \in Goroutines : mu = g => InCritical(g))
    /\ [][(flast' # flast /\ flast'.op = "ExportSpans" /\ flast'.batch # <<>>)
          => (mu # "none" /\ mu' = "none")]_vars
    /\ \A g \in Goroutines : (gor[g].pc # "idle") ~> (gor[g].pc = "idle")

\* C16 witness: the first call returned a write error and the second call
\* holds the lock
C16_Witness ==
    /\ flast.call = 1 /\ flast.fault = "write" /\ flast.err = ErrWrite
    /\ \E g \in Goroutines : mu = g /\ gor[g].call = 2

\* C17: a call whose MkdirAll or OpenFile fails returns that error, and the
\* step that returns it leaves the file system as it was: nothing of the
\* call is in the file.
C17_MkdirOpenErrorWritesNothing ==
    [][(flast' # flast /\ flast'.fault \in {"mkdir", "open"})
       => (/\ flast'.fault = "mkdir" => flast'.err = ErrMkdir
           /\ flast'.fault = "open" => flast'.err \in {ErrOpen, ErrNoDir}
           /\ fs' = fs
           /\ SelectSeq(fs.content, LAMBDA c : c.call = flast'.call) = <<>>)]_vars

\* C17 witness: the second call failed in MkdirAll; the file holds what the
\* first call wrote and nothing else
C17_Witness ==
    /\ flast.call = 2 /\ flast.fault = "mkdir" /\ flast.err = ErrMkdir
    /\ flast.batch # <<>>
    /\ ChunksOf(1) # <<>>
    /\ fs.content = fsInit.content \o ChunksOf(1)

\* C18: a call whose write of the span at index `at` fails returns the write
\* error; the file holds from it the markdown of the non-nil spans before
\* `at`, at most a part of the text of span `at`, and nothing of a later span.
\* A call that returns nil has written its whole batch, whatever the file
\* held already: a retry of a batch writes its earlier spans again.
C18_WriteErrorStopsTheBatch ==
    /\ flast.fault = "write" =>
          /\ flast.err = ErrWrite
          /\ flast.at \in 1..Len(flast.batch)
          /\ flast.batch[flast.at] # NilSpan
          /\ LET before == Rendered(SubSeq(flast.batch, 1, flast.at - 1), flast.call)
                 part == Chunk(flast.batch[flast.at], flast.call, FALSE)
             IN  ChunksOf(flast.call) \in {before, Append(before, part)}
    /\ (flast.op = "ExportSpans" /\ flast.err = NoErr) =>
          /\ flast.fault = "none"
          /\ ChunksOf(flast.call) = Rendered(flast.batch, flast.call)

\* C18 witness: the first call failed after writing a part of the batch the
\* second call then wrote in full: a span is in the file twice
C18_Witness ==
    /\ fhist.failed /\ fhist.n = 2
    /\ flast.op = "ExportSpans" /\ flast.call = 2 /\ flast.err = NoErr
    /\ ChunksOf(1) # <<>>
    /\ IsPrefix(ChunksOf(1), Rendered(flast.batch, 1))
    /\ Len(ChunksOf(1)) < Len(ChunksOf(2))
    /\ \E s \in FileSpans :
          /\ \E i \in 1..Len(fs.content) : fs.content[i] = Chunk(s, 1, TRUE)
          /\ \E i \in 1..Len(fs.content) : fs.content[i] = Chunk(s, 2, TRUE)

(* --------------------- claims: MultiExporter list ---------------------- *)

\* C19: the exporter list never holds a nil entry, and no call of ExportSpans
\* or ExportFiles is made on a nil exporter.
C19_NoNilExporter ==
    /\ \A i \in 1..Len(exporters) : exporters[i] # NilExp
    /\ \A i \in 1..Len(calls) : calls[i].exporter # NilExp

\* C19 witness: AddExporter(nil) was called on a non-empty list and left it
\* as it was
C19_Witness ==
    /\ last.op = "AddExporter" /\ last.arg = NilExp
    /\ exporters # <<>>
    /\ exporters = last.before

\* C20: a call of ExportSpans or ExportFiles leaves the exporter list as it
\* found it, so ExporterCount and the order are the same before and after,
\* and it invokes every entry of that list: the list a call finds is the list
\* the call before left, with the children that failed in it.
C20_ExportKeepsExporters ==
    IsExport =>
        /\ exporters = last.before
        /\ ExporterCountOf(exporters) = ExporterCountOf(last.before)
        /\ Len(calls) = Len(exporters)
        /\ \A i \in 1..Len(exporters) : calls[i].exporter = exporters[i]

\* C20 witness: both children of a two-entry list failed in a call, and the
\* list is the one the call found
C20_Witness ==
    /\ IsExport
    /\ Len(exporters) = 2
    /\ Len(calls) = 2
    /\ \A i \in 1..2 : calls[i].err # NoErr
    /\ ret # NoErr
    /\ exporters = last.before

(* ------------------ claims: MultiExporter concurrency ------------------ *)

\* C21: MultiExporter is safe under concurrent use: in no state is one
\* goroutine about to store m.exporters in AddExporter while another is about
\* to read it in ExportSpans, ExportFiles or ExporterCount, with nothing that
\* orders the two accesses.
C21_NoUnsynchronizedAccess ==
    \A w, r \in Callers :
        w # r => ~(/\ mcall[w].pc = "store"
                   /\ mcall[r].pc \in {"len", "range", "count"})

(* ----------------------- claims: file enqueueing ------------------------ *)

C23_SpanToMarkdownDeterministic ==
    (render.prev # <<>> /\ render.cur # <<>>) => render.prev = render.cur

\* the rows of a table in the last rendering, in text order
RowsOf(table) ==
    SelectSeq(render.cur, LAMBDA x : x.kind = "row" /\ x.name = table)

\* the rows of a table start with one row per key of its string map, in
\* ascending key order, and hold no other string row
StringRowsFirst(table, m) ==
    LET rows == RowsOf(table)
        keys == render.span.tags[m]
        n == Cardinality(keys)
    IN  /\ Len(rows) >= n
        /\ \A i \in 1..Len(rows) : (rows[i].type = "string") <=> (i <= n)
        /\ {rows[i].key : i \in 1..n} = {EscapeMarkdown(k) : k \in keys}
        /\ \A i, j \in 1..n :
              i < j => KeyRank(rows[i].key[2]) < KeyRank(rows[j].key[2])

\* C24: in the markdown of a span the rows of the string tags of each table
\* (Tags, System Tags) are one per key, in ascending key order, and come
\* before the rows of the long, double and bool tags of the table.
C24_StringTagsSortedFirst ==
    render.cur # <<>> =>
        /\ StringRowsFirst("Tags", "TagsString")
        /\ StringRowsFirst("System Tags", "SystemTagsString")

\* C24 witness: a rendering with three user string tags, two system string
\* tags and tags of other types in both tables
C24_Witness ==
    /\ render.cur # <<>>
    /\ Cardinality(render.span.tags["TagsString"]) = 3
    /\ Cardinality(render.span.tags["SystemTagsString"]) = 2
    /\ Len(RowsOf("Tags")) > 3
    /\ Len(RowsOf("System Tags")) > 2

HasPart(kind, name) ==
    \E i \in 1..Len(render.cur) :
        render.cur[i].kind = kind /\ render.cur[i].name = name

\* C25: in the markdown of a span the Service, Workspace ID and Log ID lines
\* and the Input and Output sections are there iff the field is not empty,
\* the Tags table iff one of the four user tag maps is not empty, the System
\* Tags table iff one of the three system tag maps is not empty, and the
\* status text is OK iff StatusCode is 0 and ERROR otherwise.
C25_OptionalPartsIffNonEmpty ==
    render.cur # <<>> =>
        LET span == render.span
            some(ms) == \E m \in ms : span.tags[m] # {}
        IN  /\ HasPart("line", "Service") <=> span.ServiceName # EmptyText
            /\ HasPart("line", "Workspace ID") <=> span.WorkspaceID # EmptyText
            /\ HasPart("line", "Log ID") <=> span.LogID # EmptyText
            /\ HasPart("section", "Input") <=> span.Input # EmptyText
            /\ HasPart("section", "Output") <=> span.Output # EmptyText
            /\ HasPart("table", "Tags")
                  <=> some({"TagsString", "TagsLong", "TagsDouble", "TagsBool"})
            /\ (RowsOf("Tags") # <<>>) => HasPart("table", "Tags")
            /\ HasPart("table", "System Tags")
                  <=> some({"SystemTagsString", "SystemTagsLong", "SystemTagsDouble"})
            /\ (RowsOf("System Tags") # <<>>) => HasPart("table", "System Tags")
            /\ \E i \in 1..Len(render.cur) :
                  /\ render.cur[i].kind = "line" /\ render.cur[i].name = "Status"
                  /\ render.cur[i].val =
                        <<IF span.StatusCode = 0 THEN "OK" ELSE "ERROR", span.StatusCode>>

\* C25 witness: a rendering of a failed span with a service but no workspace,
\* an input but no output, only bool user tags and only double system tags
C25_Witness ==
    /\ render.cur # <<>>
    /\ render.span.StatusCode # 0
    /\ render.span.ServiceName # EmptyText /\ render.span.WorkspaceID = EmptyText
    /\ render.span.Input # EmptyText /\ render.span.Output = EmptyText
    /\ \A m \in TagMaps : (render.span.tags[m] # {}) <=> m \in {"TagsBool", "SystemTagsDouble"}
    /\ HasPart("table", "Tags") /\ HasPart("table", "System Tags")
    /\ ~HasPart("section", "Output")

====
